---- MODULE Spec2Model ----
(***************************************************************************)
(* Model of package relay (src/relay.go, the pointer-to-channel variant,   *)
(* lines 1-252): one relay, one foreground caller issuing Execute calls    *)
(* one after another, and the timing goroutines spawned by Execute(On).    *)
(*                                                                         *)
(* Every statement that reads or writes a field of the relay, the pin or a *)
(* channel is one step, so the goroutines interleave with the foreground   *)
(* and with each other statement by statement.  time.Sleep is a point      *)
(* where the sleeper can be overtaken by any number of other steps; it     *)
(* changes no state, so it is folded into the step before it.  A send on   *)
(* t.ReportCh appends to the log `reports`; a sender that waits for the    *)
(* consumer is a process that is not scheduled for a while.                *)
(***************************************************************************)
EXTENDS Integers, Sequences, FiniteSets, TLC

\* ---------------------------------------------------------------- bounds
MaxCmds == 3      \* Execute calls issued by the caller
MaxSpawn == 2     \* goroutines spawned by those calls
MaxDur  == 1      \* longest Duration a trigger carries

\* ------------------------------------------------------------- constants
ZeroTime == -1    \* time.Time{}, where an age is expected
Nil == 0          \* a nil channel pointer

name == "relay"
Targets == {name, "other"}
OnActions == {"On", "on", "ON"}
OffActions == {"Off", "off", "OFF"}
Actions == OnActions \cup OffActions \cup {"Toggle"}
Durations == 0 .. MaxDur
Late == MaxDur + 1             \* an age that exceeds every Duration
Ages == 0 .. Late
GIds == 1 .. MaxSpawn         \* goroutines, in the order they are spawned
CmdIds == 1 .. MaxCmds        \* Execute calls, in the order they are issued

\* a chan of capacity 1
NewChan == [buf |-> <<>>, closed |-> FALSE]
NoTrigger == [id |-> 0, Duration |-> 0]
NoCall == [kind |-> "none", Duration |-> 0]
NoReturn == [op |-> "none"]

VARIABLES
  pin,          \* r.pin: TRUE is high
  since,        \* time.Since(r.onTime): r.onTime, kept as its age, up to Late
  duration,     \* r.duration
  durationCh,   \* r.durationCh: Nil or the goroutine whose durationCh it points to
  off,          \* r.off: Nil or the goroutine whose off channel it points to
  chDuration,   \* the durationCh made by each goroutine (line 74)
  chOff,        \* the off channel made by each goroutine (line 75)
  fpc,          \* the foreground caller's position in Execute
  ft,           \* the trigger of the Execute call in progress
  fch,          \* the channel the foreground has loaded for its send
  gpc,          \* each goroutine's position
  gt,           \* each goroutine's captured trigger t
  gnew,         \* each goroutine's newDuration
  gsig,         \* the call whose signal each goroutine received on off, if any
  reports,      \* for each call, what was sent on its t.ReportCh, in order
  ncmd,         \* Execute calls issued so far
  calls,        \* for each call, what was asked
  found,        \* the relay as the latest call found it
  dret,         \* what the latest direct call (Set, On, Off, Get, ...) returned
  panicked      \* "none", or the run-time panic that ended the program

rvars == <<pin, since, duration, durationCh, off, chDuration, chOff>>
fvars == <<fpc, ft, fch>>
gvars == <<gpc, gt, gnew, gsig>>
vars == <<pin, since, duration, durationCh, off, chDuration, chOff,
          fpc, ft, fch, gpc, gt, gnew, gsig, reports, ncmd, calls, found, dret,
          panicked>>

\* New (lines 35-44) followed by Configure (lines 47-51): the pin is low and
\* onTime is the time of configuration.
Init ==
  /\ pin = FALSE
  /\ since = 0
  /\ duration = 0
  /\ durationCh = Nil
  /\ off = Nil
  /\ chDuration = [g \in GIds |-> NewChan]
  /\ chOff = [g \in GIds |-> NewChan]
  /\ fpc = "idle"
  /\ ft = NoTrigger
  /\ fch = Nil
  /\ gpc = [g \in GIds |-> "none"]
  /\ gt = [g \in GIds |-> NoTrigger]
  /\ gnew = [g \in GIds |-> 0]
  /\ gsig = [g \in GIds |-> 0]
  /\ reports = [c \in CmdIds |-> <<>>]
  /\ ncmd = 0
  /\ calls = [c \in CmdIds |-> NoCall]
  /\ found = [pin |-> FALSE, none |-> TRUE, late |-> FALSE]
  /\ dret = NoReturn
  /\ panicked = "none"

Running == panicked = "none"

\* t.ReportCh <- t with t.Message and t.Error as set by the sender
Report(id, msg, err) ==
  reports' = [reports EXCEPT ![id] = Append(@, [msg |-> msg, error |-> err])]

\* time.Since(r.onTime) > d; the zero time lies centuries back
SinceExceeds(d) == IF since = ZeroTime THEN TRUE ELSE since > d

\* the clock: r.onTime is one unit older
Tick ==
  /\ Running
  /\ since \in 0 .. Late - 1
  /\ since' = since + 1
  /\ UNCHANGED <<pin, duration, durationCh, off, chDuration, chOff, fvars, gvars, reports, ncmd, calls, found, dret, panicked>>

\* ------------------------------------------------------------ reset()
\* One statement of reset (lines 233-252), from position p to position q.
\* close(*r.off) of a nil pointer, or of a closed channel, is a panic.
ResetPcs == {"r236", "r237", "r238", "r242", "r243", "r244", "r247", "r248"}

reset(p, q) ==
  \/ /\ p = "r236"                                  \* if r.off != nil
     /\ q = IF off # Nil THEN "r237" ELSE "r242"
     /\ UNCHANGED <<rvars, panicked>>
  \/ /\ p = "r237"                                  \* close(*r.off)
     /\ q = "r238"
     /\ IF off = Nil
        THEN panicked' = "nil dereference" /\ UNCHANGED rvars
        ELSE IF chOff[off].closed
        THEN panicked' = "close of closed channel" /\ UNCHANGED rvars
        ELSE /\ chOff' = [chOff EXCEPT ![off].closed = TRUE]
             /\ UNCHANGED <<pin, since, duration, durationCh, off, chDuration, panicked>>
  \/ /\ p = "r238"                                  \* r.off = nil
     /\ q = "r242"
     /\ off' = Nil
     /\ UNCHANGED <<pin, since, duration, durationCh, chDuration, chOff, panicked>>
  \/ /\ p = "r242"                                  \* if r.durationCh != nil
     /\ q = IF durationCh # Nil THEN "r243" ELSE "r247"
     /\ UNCHANGED <<rvars, panicked>>
  \/ /\ p = "r243"                                  \* close(*r.durationCh)
     /\ q = "r244"
     /\ IF durationCh = Nil
        THEN panicked' = "nil dereference" /\ UNCHANGED rvars
        ELSE IF chDuration[durationCh].closed
        THEN panicked' = "close of closed channel" /\ UNCHANGED rvars
        ELSE /\ chDuration' = [chDuration EXCEPT ![durationCh].closed = TRUE]
             /\ UNCHANGED <<pin, since, duration, durationCh, off, chOff, panicked>>
  \/ /\ p = "r244"                                  \* r.durationCh = nil
     /\ q = "r247"
     /\ durationCh' = Nil
     /\ UNCHANGED <<pin, since, duration, off, chDuration, chOff, panicked>>
  \/ /\ p = "r247"                                  \* r.duration = 0
     /\ q = "r248"
     /\ duration' = 0
     /\ UNCHANGED <<pin, since, durationCh, off, chDuration, chOff, panicked>>
  \/ /\ p = "r248"                                  \* r.onTime = time.Time{}
     /\ q = "ret"
     /\ since' = ZeroTime
     /\ UNCHANGED <<pin, duration, durationCh, off, chDuration, chOff, panicked>>

\* ------------------------------------------------- Execute, foreground
Trigger(tgt, act, d) == [Target |-> tgt, Action |-> act, Duration |-> d]
Triggers == {Trigger(tgt, act, d) : tgt \in Targets, act \in Actions, d \in Durations}

CanCall == Running /\ fpc = "idle" /\ ncmd < MaxCmds

\* goroutines that have been spawned and have not returned
Live == {g \in GIds : gpc[g] \notin {"none", "done"}}

\* lines 70 and 145: the two tests of "a goroutine is working"
NoSession == off = Nil /\ durationCh = Nil
Session == off # Nil /\ durationCh # Nil

\* the session registered is that of one goroutine, which has not begun one
\* of its three exits and has no cancel signal waiting for it
ActiveSession ==
  /\ Session
  /\ off = durationCh
  /\ gpc[off] \in {"L89", "L96", "L101", "L118", "L119", "L115", "L116"}
  /\ chOff[off] = NewChan

\* the record of a call: the trigger's kind and Duration; and what this, the
\* latest, call found: the pin, whether no session was registered, and
\* whether it is an On for a Duration > 0 that reached an active session
\* already older than that Duration
Call(kind, d) ==
  /\ calls' = [calls EXCEPT ![ncmd + 1] = [kind |-> kind, Duration |-> d]]
  /\ found' = [pin |-> pin, none |-> NoSession,
               late |-> kind = "On" /\ d > 0 /\ ActiveSession /\ SinceExceeds(d)]
  /\ dret' = NoReturn

\* goroutines spawned so far
Spawned == Cardinality({g \in GIds : gpc[g] # "none"})

\* ExecuteMisrouted without the return of line 65: an Off goes on into the switch
ExecuteMisroutedNoReturn(t) ==
  /\ CanCall
  /\ t.Target # name
  /\ Report(ncmd + 1, "received a trigger intended for", TRUE)
  /\ ncmd' = ncmd + 1
  /\ Call("Misrouted", 0)
  /\ IF t.Action \in OffActions
     THEN /\ ft' = [id |-> ncmd + 1, Duration |-> 0]
          /\ fpc' = IF off # Nil THEN "L145" ELSE "L150"
     ELSE UNCHANGED <<fpc, ft>>
  /\ UNCHANGED <<rvars, fch, gvars, panicked>>

\* lines 60-66: a trigger meant for another target
ExecuteMisrouted(t) ==
  /\ CanCall
  /\ t.Target # name
  /\ Report(ncmd + 1, "received a trigger intended for", TRUE)
  /\ ncmd' = ncmd + 1
  /\ Call("Misrouted", 0)
  /\ UNCHANGED <<rvars, fvars, gvars, panicked>>

\* ExecuteUnknown without the t.Error = true of line 160
ExecuteUnknownNoError(t) ==
  /\ CanCall
  /\ t.Target = name
  /\ t.Action \notin OnActions \cup OffActions
  /\ Report(ncmd + 1, "does not understand Action", FALSE)
  /\ ncmd' = ncmd + 1
  /\ Call("Unknown", 0)
  /\ UNCHANGED <<rvars, fvars, gvars, panicked>>

\* lines 159-164: an Action that is neither On nor Off
ExecuteUnknown(t) ==
  /\ CanCall
  /\ t.Target = name
  /\ t.Action \notin OnActions \cup OffActions
  /\ Report(ncmd + 1, "does not understand Action", TRUE)
  /\ ncmd' = ncmd + 1
  /\ Call("Unknown", 0)
  /\ UNCHANGED <<rvars, fvars, gvars, panicked>>

\* lines 68-70: case On, and the read of r.off in the session test
ExecuteOn(t) ==
  /\ CanCall
  /\ t.Target = name
  /\ t.Action \in OnActions
  /\ off # Nil \/ Spawned < MaxSpawn
  /\ ncmd' = ncmd + 1
  /\ Call("On", t.Duration)
  /\ ft' = [id |-> ncmd + 1, Duration |-> t.Duration]
  /\ fpc' = IF off = Nil THEN "L70" ELSE "L136"
  /\ UNCHANGED <<rvars, fch, gvars, reports, panicked>>

\* lines 144-145: case Off, and the read of r.off in the session test
ExecuteOff(t) ==
  /\ CanCall
  /\ t.Target = name
  /\ t.Action \in OffActions
  /\ ncmd' = ncmd + 1
  /\ Call("Off", 0)
  /\ ft' = [id |-> ncmd + 1, Duration |-> 0]      \* case Off never reads t.Duration
  /\ fpc' = IF off # Nil THEN "L145" ELSE "L150"
  /\ UNCHANGED <<rvars, fch, gvars, reports, panicked>>

At(p) == Running /\ fpc = p

\* the foreground moves to position p; "idle" is the return of Execute
Goto(p) ==
  /\ fpc' = p
  /\ ft' = IF p = "idle" THEN NoTrigger ELSE ft

\* line 70, second operand: r.durationCh == nil
OnTestDurationCh ==
  /\ At("L70")
  /\ Goto(IF durationCh = Nil THEN "L71" ELSE "L136")
  /\ UNCHANGED <<rvars, fch, gvars, reports, ncmd, calls, found, dret, panicked>>

\* line 71: r.onTime = time.Now()
OnStamp ==
  /\ At("L71")
  /\ since' = 0
  /\ Goto("L72")
  /\ UNCHANGED <<pin, duration, durationCh, off, chDuration, chOff, fch,
                 gvars, reports, ncmd, calls, found, dret, panicked>>

\* line 72: r.pin.High()
OnHigh ==
  /\ At("L72")
  /\ pin' = TRUE
  /\ Goto("L73")
  /\ UNCHANGED <<since, duration, durationCh, off, chDuration, chOff, fch,
                 gvars, reports, ncmd, calls, found, dret, panicked>>

\* lines 73, 130-134: go func() {...}() and return; the goroutine starts at
\* line 74 with its own copy of t
OnSpawn ==
  /\ At("L73")
  /\ Spawned < MaxSpawn
  /\ gpc' = [gpc EXCEPT ![Spawned + 1] = "L76"]
  /\ gt' = [gt EXCEPT ![Spawned + 1] = ft]
  /\ Goto("idle")
  /\ UNCHANGED <<rvars, fch, gnew, gsig, reports, ncmd, calls, found, dret, panicked>>

\* line 136: if t.Duration != r.duration
OnTestDuration ==
  /\ At("L136")
  /\ Goto(IF ft.Duration # duration THEN "L138" ELSE "idle")
  /\ UNCHANGED <<rvars, fch, gvars, reports, ncmd, calls, found, dret, panicked>>

\* line 138: if r.durationCh != nil
OnTestSend ==
  /\ At("L138")
  /\ Goto(IF durationCh # Nil THEN "L139" ELSE "idle")
  /\ UNCHANGED <<rvars, fch, gvars, reports, ncmd, calls, found, dret, panicked>>

\* line 139, *r.durationCh: the pointer is loaded; nil is a panic
OnLoadDurationCh ==
  /\ At("L139")
  /\ IF durationCh = Nil
     THEN panicked' = "nil dereference" /\ UNCHANGED fvars
     ELSE fch' = durationCh /\ Goto("L139s") /\ UNCHANGED panicked
  /\ UNCHANGED <<rvars, gvars, reports, ncmd, calls, found, dret>>

\* line 139, the send: a closed channel is a panic, a full one makes the
\* sender wait; lines 141: return
OnSend ==
  /\ At("L139s")
  /\ IF chDuration[fch].closed
     THEN panicked' = "send on closed channel" /\ UNCHANGED <<fvars, chDuration>>
     ELSE /\ Len(chDuration[fch].buf) < 1
          /\ chDuration' = [chDuration EXCEPT ![fch].buf = Append(@, ft.Duration)]
          /\ fch' = Nil
          /\ Goto("idle")
          /\ UNCHANGED panicked
  /\ UNCHANGED <<pin, since, duration, durationCh, off, chOff, gvars,
                 reports, ncmd, calls, found, dret>>

\* line 145, second operand: r.durationCh != nil
OffTestDurationCh ==
  /\ At("L145")
  /\ Goto(IF durationCh # Nil THEN "L147" ELSE "L150")
  /\ UNCHANGED <<rvars, fch, gvars, reports, ncmd, calls, found, dret, panicked>>

\* line 147, *r.off: the pointer is loaded; nil is a panic
OffLoadOff ==
  /\ At("L147")
  /\ IF off = Nil
     THEN panicked' = "nil dereference" /\ UNCHANGED fvars
     ELSE fch' = off /\ Goto("L147s") /\ UNCHANGED panicked
  /\ UNCHANGED <<rvars, gvars, reports, ncmd, calls, found, dret>>

\* line 147, the send, and line 148, the 50 ms of grace; the struct{}{} sent
\* is marked with the call that sends it
OffSend ==
  /\ At("L147s")
  /\ IF chOff[fch].closed
     THEN panicked' = "send on closed channel" /\ UNCHANGED <<fvars, chOff>>
     ELSE /\ Len(chOff[fch].buf) < 1
          /\ chOff' = [chOff EXCEPT ![fch].buf = Append(@, ft.id)]
          /\ fch' = Nil
          /\ Goto("L150")
          /\ UNCHANGED panicked
  /\ UNCHANGED <<pin, since, duration, durationCh, off, chDuration, gvars,
                 reports, ncmd, calls, found, dret>>

\* OffTestPin that returns without the forced pin.Low() of lines 151-156
OffTestPinNoForce ==
  /\ At("L150")
  /\ Goto("idle")
  /\ UNCHANGED <<rvars, fch, gvars, reports, ncmd, calls, found, dret, panicked>>

\* line 150: if r.pin.Get(); line 158: return
OffTestPin ==
  /\ At("L150")
  /\ Goto(IF pin THEN "L151" ELSE "idle")
  /\ UNCHANGED <<rvars, fch, gvars, reports, ncmd, calls, found, dret, panicked>>

\* line 151: r.pin.Low()
OffLow ==
  /\ At("L151")
  /\ pin' = FALSE
  /\ Goto("L154")
  /\ UNCHANGED <<since, duration, durationCh, off, chDuration, chOff, fch,
                 gvars, reports, ncmd, calls, found, dret, panicked>>

\* lines 153-154: the report "Off! after"
OffReport ==
  /\ At("L154")
  /\ Report(ft.id, "Off! after", FALSE)
  /\ Goto("r236")
  /\ UNCHANGED <<rvars, fch, gvars, ncmd, calls, found, dret, panicked>>

\* lines 155-156: r.reset() and return
OffReset ==
  /\ Running
  /\ fpc \in ResetPcs
  /\ \E q \in ResetPcs \cup {"ret"} :
       /\ reset(fpc, q)
       /\ Goto(IF q = "ret" THEN "idle" ELSE q)
  /\ UNCHANGED <<fch, gvars, reports, ncmd, calls, found, dret>>

\* ------------------------------------------- the timing goroutine, 73-130
GAt(g, p) == Running /\ gpc[g] = p
GGoto(g, p) == gpc' = [gpc EXCEPT ![g] = p]

\* a receive is ready on a channel that holds a value or is closed
Ready(ch) == Len(ch.buf) > 0 \/ ch.closed

\* lines 74-76: the two channels are made; r.durationCh = &durationCh
GSetDurationCh(g) ==
  /\ GAt(g, "L76")
  /\ durationCh' = g
  /\ GGoto(g, "L77")
  /\ UNCHANGED <<pin, since, duration, off, chDuration, chOff, fvars,
                 gt, gnew, gsig, reports, ncmd, calls, found, dret, panicked>>

\* line 77: r.off = &off (the defers of lines 78-83 only read)
GSetOff(g) ==
  /\ GAt(g, "L77")
  /\ off' = g
  /\ GGoto(g, "L89")
  /\ UNCHANGED <<pin, since, duration, durationCh, chDuration, chOff, fvars,
                 gt, gnew, gsig, reports, ncmd, calls, found, dret, panicked>>

\* lines 89-94: "On indefinitely" is reported, or r.duration = t.Duration
GActivate(g) ==
  /\ GAt(g, "L89")
  /\ IF gt[g].Duration <= 0
     THEN /\ Report(gt[g].id, "On indefinitely", FALSE)
          /\ GGoto(g, "L101")
          /\ UNCHANGED duration
     ELSE /\ duration' = gt[g].Duration
          /\ GGoto(g, "L96")
          /\ UNCHANGED reports
  /\ UNCHANGED <<pin, since, durationCh, off, chDuration, chOff, fvars,
                 gt, gnew, gsig, ncmd, calls, found, dret, panicked>>

\* lines 95-96: the report "On for"
GReportOnFor(g) ==
  /\ GAt(g, "L96")
  /\ Report(gt[g].id, "On for", FALSE)
  /\ GGoto(g, "L101")
  /\ UNCHANGED <<rvars, fvars, gt, gnew, gsig, ncmd, calls, found, dret, panicked>>

\* lines 101-102: select, case <-off
GRecvOff(g) ==
  /\ GAt(g, "L101")
  /\ Ready(chOff[g])
  /\ chOff' = [chOff EXCEPT ![g].buf = IF Len(@) > 0 THEN Tail(@) ELSE @]
  /\ gsig' = [gsig EXCEPT ![g] = IF Len(chOff[g].buf) > 0 THEN Head(chOff[g].buf) ELSE 0]
  /\ GGoto(g, "L103")
  /\ UNCHANGED <<pin, since, duration, durationCh, off, chDuration, fvars,
                 gt, gnew, reports, ncmd, calls, found, dret, panicked>>

\* GRecvDuration that ends the session on newDuration < 0 only (line 108 with
\* < for <=)
GRecvDurationStrict(g) ==
  /\ GAt(g, "L101")
  /\ Ready(chDuration[g])
  /\ LET d == IF Len(chDuration[g].buf) > 0 THEN Head(chDuration[g].buf) ELSE 0
     IN /\ gnew' = [gnew EXCEPT ![g] = IF d < 0 THEN 0 ELSE d]
        /\ GGoto(g, IF d < 0 THEN "L109" ELSE "L115")
  /\ chDuration' = [chDuration EXCEPT ![g].buf = IF Len(@) > 0 THEN Tail(@) ELSE @]
  /\ UNCHANGED <<pin, since, duration, durationCh, off, chOff, fvars,
                 gt, gsig, reports, ncmd, calls, found, dret, panicked>>

\* lines 101, 107-108: select, case newDuration := <-durationCh; a closed
\* channel yields 0
GRecvDuration(g) ==
  /\ GAt(g, "L101")
  /\ Ready(chDuration[g])
  /\ LET d == IF Len(chDuration[g].buf) > 0 THEN Head(chDuration[g].buf) ELSE 0
     IN /\ gnew' = [gnew EXCEPT ![g] = IF d <= 0 THEN 0 ELSE d]
        /\ GGoto(g, IF d <= 0 THEN "L109" ELSE "L115")
  /\ chDuration' = [chDuration EXCEPT ![g].buf = IF Len(@) > 0 THEN Tail(@) ELSE @]
  /\ UNCHANGED <<pin, since, duration, durationCh, off, chOff, fvars,
                 gt, gsig, reports, ncmd, calls, found, dret, panicked>>

\* lines 101, 117: select, default, when neither channel is ready
GDefault(g) ==
  /\ GAt(g, "L101")
  /\ ~Ready(chOff[g])
  /\ ~Ready(chDuration[g])
  /\ GGoto(g, "L118")
  /\ UNCHANGED <<rvars, fvars, gt, gnew, gsig, reports, ncmd, calls, found, dret, panicked>>

\* line 118: if r.duration > 0; otherwise line 127, the 45 ms of sleep
GTestDuration(g) ==
  /\ GAt(g, "L118")
  /\ GGoto(g, IF duration > 0 THEN "L119" ELSE "L101")
  /\ UNCHANGED <<rvars, fvars, gt, gnew, gsig, reports, ncmd, calls, found, dret, panicked>>

\* line 119: if time.Since(r.onTime) > r.duration; otherwise line 127
GTestTimeout(g) ==
  /\ GAt(g, "L119")
  /\ GGoto(g, IF SinceExceeds(duration) THEN "L120" ELSE "L101")
  /\ UNCHANGED <<rvars, fvars, gt, gnew, gsig, reports, ncmd, calls, found, dret, panicked>>

\* lines 103, 109, 120: r.pin.Low() on each of the three exits
LowPcs == {"L103", "L109", "L120"}
AfterLow(p) == CASE p = "L103" -> "L105" [] p = "L109" -> "L111" [] p = "L120" -> "L123"

GLow(g) ==
  /\ Running
  /\ gpc[g] \in LowPcs
  /\ pin' = FALSE
  /\ GGoto(g, AfterLow(gpc[g]))
  /\ UNCHANGED <<since, duration, durationCh, off, chDuration, chOff, fvars,
                 gt, gnew, gsig, reports, ncmd, calls, found, dret, panicked>>

\* lines 104-106, 110-112, 121-124: the final report, then return, which
\* runs the deferred reset of line 80
FinalPcs == {"L105", "L111", "L123"}
FinalMsg(p) == IF p = "L105" THEN "Forced Off after" ELSE "Off after"

\* GReportFinal without the return of lines 106, 112 and 124
GReportFinalNoReturn(g) ==
  /\ Running
  /\ gpc[g] \in FinalPcs
  /\ Report(gt[g].id, FinalMsg(gpc[g]), FALSE)
  /\ GGoto(g, "L101")
  /\ UNCHANGED <<rvars, fvars, gt, gnew, gsig, ncmd, calls, found, dret, panicked>>

GReportFinal(g) ==
  /\ Running
  /\ gpc[g] \in FinalPcs
  /\ Report(gt[g].id, FinalMsg(gpc[g]), FALSE)
  /\ GGoto(g, "r236")
  /\ UNCHANGED <<rvars, fvars, gt, gnew, gsig, ncmd, calls, found, dret, panicked>>

\* line 115: r.duration = newDuration
GSetDuration(g) ==
  /\ GAt(g, "L115")
  /\ duration' = gnew[g]
  /\ gnew' = [gnew EXCEPT ![g] = 0]
  /\ GGoto(g, "L116")
  /\ UNCHANGED <<pin, since, durationCh, off, chDuration, chOff, fvars,
                 gt, gsig, reports, ncmd, calls, found, dret, panicked>>

\* lines 114, 116: the report "Changing On duration"
GReportChange(g) ==
  /\ GAt(g, "L116")
  /\ Report(gt[g].id, "Changing On duration", FALSE)
  /\ GGoto(g, "L101")
  /\ UNCHANGED <<rvars, fvars, gt, gnew, gsig, ncmd, calls, found, dret, panicked>>

\* line 80: the deferred r.reset(); then the goroutine is gone
GReset(g) ==
  /\ Running
  /\ gpc[g] \in ResetPcs
  /\ \E q \in ResetPcs \cup {"ret"} :
       /\ reset(gpc[g], q)
       /\ GGoto(g, IF q = "ret" THEN "done" ELSE q)
  /\ UNCHANGED <<fvars, gt, gnew, gsig, reports, ncmd, calls, found, dret>>

\* ------------------------------- Set, On, Off, Get, State, StateString, Name
\* The direct methods, called by the foreground caller between Execute
\* calls; the goroutines run on in between their statements.  A call counts
\* among the MaxCmds calls of a run.
DirectKinds == {"Set", "DirectOn", "DirectOff"}
ReadKinds == {"Get", "State", "StateString", "Name"}

\* the call is recorded and the pin is written: the first statement of Set,
\* On and Off, after which the foreground is at the stamp of onTime at line p
DirectWrite(kind, level, p) ==
  /\ CanCall
  /\ ncmd' = ncmd + 1
  /\ Call(kind, 0)
  /\ pin' = level
  /\ fpc' = p
  /\ UNCHANGED <<since, duration, durationCh, off, chDuration, chOff, ft, fch,
                 gvars, reports, panicked>>

\* line 174: r.pin.Set(s)
DirectSet(s) == DirectWrite("Set", s, "L175")
\* line 182: r.pin.High()
DirectOn == DirectWrite("DirectOn", TRUE, "L183")
\* line 190: r.pin.Low()
DirectOff == DirectWrite("DirectOff", FALSE, "L191")

StampPcs == {"L175", "L183", "L191"}
AfterStamp(p) == CASE p = "L175" -> "L177" [] p = "L183" -> "L185" [] p = "L191" -> "L193"
ReadBackPcs == {"L177", "L185", "L193"}

\* DirectStamp that clears r.duration as well, as reset does at line 247
DirectStampClears ==
  /\ Running
  /\ fpc \in StampPcs
  /\ since' = 0
  /\ duration' = 0
  /\ fpc' = AfterStamp(fpc)
  /\ UNCHANGED <<pin, durationCh, off, chDuration, chOff, ft, fch,
                 gvars, reports, ncmd, calls, found, dret, panicked>>

\* lines 175-176, 183-184, 191-192: r.onTime = time.Now(), then 5 ms of sleep
DirectStamp ==
  /\ Running
  /\ fpc \in StampPcs
  /\ since' = 0
  /\ fpc' = AfterStamp(fpc)
  /\ UNCHANGED <<pin, duration, durationCh, off, chDuration, chOff, ft, fch,
                 gvars, reports, ncmd, calls, found, dret, panicked>>

\* lines 177, 185, 193: return r.pin.Get()
DirectReadBack ==
  /\ Running
  /\ fpc \in ReadBackPcs
  /\ dret' = [op |-> calls[ncmd].kind, value |-> pin]
  /\ fpc' = "idle"
  /\ UNCHANGED <<rvars, ft, fch, gvars, reports, ncmd, calls, found, panicked>>

\* a call that only reads is recorded; Call leaves dret to the caller here
Read(kind) ==
  /\ CanCall
  /\ ncmd' = ncmd + 1
  /\ calls' = [calls EXCEPT ![ncmd + 1] = [kind |-> kind, Duration |-> 0]]
  /\ found' = [pin |-> pin, none |-> NoSession, late |-> FALSE]
  /\ UNCHANGED <<rvars, ft, fch, gvars, reports, panicked>>

\* lines 168-170: Get returns r.pin.Get()
DirectGet ==
  /\ Read("Get")
  /\ dret' = [op |-> "Get", value |-> pin]
  /\ UNCHANGED fpc

\* lines 228-230: Name returns r.name
DirectName ==
  /\ Read("Name")
  /\ dret' = [op |-> "Name", value |-> name]
  /\ UNCHANGED fpc

\* line 206, r.Get(), and line 212, r.Get() for "ON" or "OFF": the first of
\* the two reads of State and of StateString
DirectState ==
  /\ Read("State")
  /\ dret' = [op |-> "State", value |-> pin]
  /\ fpc' = "L206"

DirectStateString ==
  /\ Read("StateString")
  /\ dret' = [op |-> "StateString", value |-> IF pin THEN "ON" ELSE "OFF"]
  /\ fpc' = "L223"

\* line 206, r.onTime, and line 223, r.onTime.String(): the second read, and
\* the return
DirectReadOnTime ==
  /\ Running
  /\ fpc \in {"L206", "L223"}
  /\ dret' = [op |-> dret.op, value |-> dret.value, onTime |-> since]
  /\ fpc' = "idle"
  /\ UNCHANGED <<rvars, ft, fch, gvars, reports, ncmd, calls, found, panicked>>

Direct ==
  \/ \E s \in BOOLEAN : DirectSet(s)
  \/ DirectOn \/ DirectOff
  \/ DirectStamp \/ DirectReadBack
  \/ DirectGet \/ DirectName \/ DirectState \/ DirectStateString
  \/ DirectReadOnTime

\* --------------------------------------------------------- the program
Foreground ==
  \/ \E t \in Triggers : ExecuteMisrouted(t)
  \/ \E t \in Triggers : ExecuteUnknown(t)
  \/ \E t \in Triggers : ExecuteOn(t)
  \/ \E t \in Triggers : ExecuteOff(t)
  \/ OnTestDurationCh \/ OnStamp \/ OnHigh \/ OnSpawn
  \/ OnTestDuration \/ OnTestSend \/ OnLoadDurationCh \/ OnSend
  \/ OffTestDurationCh \/ OffLoadOff \/ OffSend
  \/ OffTestPin \/ OffLow \/ OffReport \/ OffReset

Goroutine(g) ==
  \/ GSetDurationCh(g) \/ GSetOff(g) \/ GActivate(g) \/ GReportOnFor(g)
  \/ GRecvOff(g) \/ GRecvDuration(g) \/ GDefault(g)
  \/ GTestDuration(g) \/ GTestTimeout(g)
  \/ GLow(g) \/ GReportFinal(g)
  \/ GSetDuration(g) \/ GReportChange(g)
  \/ GReset(g)

Next == Foreground \/ (\E g \in GIds : Goroutine(g)) \/ Tick

Spec == Init /\ [][Next]_vars

\* the program whose caller also uses the direct methods
NextDirect == Next \/ Direct

SpecDirect == Init /\ [][NextDirect]_vars

TypeOK ==
  /\ pin \in BOOLEAN
  /\ since \in Ages \cup {ZeroTime}
  /\ duration \in Durations
  /\ durationCh \in GIds \cup {Nil}
  /\ off \in GIds \cup {Nil}
  /\ ncmd \in 0 .. MaxCmds
  /\ \A c \in CmdIds : Len(reports[c]) <= 2 * MaxCmds + 2

\* =================================================================== claims
Msgs(c) == [i \in 1 .. Len(reports[c]) |-> reports[c][i].msg]
Has(c, m) == \E i \in 1 .. Len(reports[c]) : reports[c][i].msg = m

\* the latest call
Latest(kind) == ncmd >= 1 /\ calls[ncmd].kind = kind
\* the goroutine spawned by call c, if any
SpawnedBy(g, c) == gpc[g] # "none" /\ gt[g].id = c

\* C1: in every reachable state at most one timing goroutine spawned by
\* Execute(On) is alive.
C1_AtMostOneGoroutine == Cardinality(Live) <= 1

\* C2: when the first call is Execute(On, D1) and the second is Execute(On, D2)
\* with D2 > 0 and D2 # D1, made before the first session has ended, no second
\* goroutine is spawned, and once the revision has been taken up the
\* duration of the one session is D2.
C2_RevisionRace ==
  ( /\ ncmd = 2
    /\ calls[1].kind = "On"
    /\ calls[2].kind = "On"
    /\ calls[2].Duration > 0
    /\ calls[2].Duration # calls[1].Duration
    /\ gpc[1] \notin {"none", "done"} )
  => /\ \A g \in GIds \ {1} : gpc[g] = "none"
     /\ (fpc = "idle" /\ gpc[1] = "L101" /\ chDuration[1].buf = <<>>)
          => duration = calls[2].Duration

\* C3: an Execute(Off) that reaches a timed session never yields both the
\* goroutine's "Forced Off" report and the foreground's "Off!" report.
C3_OneReportPerOff ==
  \A g \in GIds :
    ( /\ Latest("Off")
      /\ gsig[g] = ncmd
      /\ gt[g].Duration > 0 )
    => ~(Has(ncmd, "Off! after") /\ Has(gt[g].id, "Forced Off after"))

\* C4: when Execute(On, D) with D > 0 reached a relay whose pin was low and
\* that had no session, and no further call is made, then once its goroutine
\* has finished the pin is low, no session is registered, duration is 0 and
\* the call's reports are the activation report and one "Off after".
C4_Timeout ==
  \A g \in GIds :
    ( /\ Latest("On")
      /\ calls[ncmd].Duration > 0
      /\ ~found.pin /\ found.none
      /\ SpawnedBy(g, ncmd)
      /\ gpc[g] = "done" )
    => /\ ~pin
       /\ NoSession
       /\ duration = 0
       /\ Msgs(ncmd) = <<"On for", "Off after">>

\* C5: when Execute(On, 0) reached a relay whose pin was low and that had no
\* session, then once the call has returned, and for as long as no further
\* call is made, the pin is high and the call's only report is the one
\* "On indefinitely".
C5_IndefiniteOn ==
  \A g \in GIds :
    ( /\ Latest("On")
      /\ calls[ncmd].Duration = 0
      /\ ~found.pin /\ found.none
      /\ SpawnedBy(g, ncmd) )
    => /\ pin
       /\ Msgs(ncmd) \in {<<>>, <<"On indefinitely">>}

\* C6: a call whose Target is not the relay's name sends exactly one report,
\* with Error = true, on its ReportCh, and the step that makes it returns at
\* once and leaves the pin, both channel pointers, both channels, onTime
\* and duration, and every goroutine, as they were.
C6_Misrouted ==
  /\ [](\A c \in CmdIds :
         calls[c].kind = "Misrouted"
         => reports[c] = <<[msg |-> "received a trigger intended for", error |-> TRUE]>>)
  /\ [][(ncmd' = ncmd + 1 /\ calls'[ncmd'].kind = "Misrouted")
         => (UNCHANGED <<rvars, gvars, panicked>> /\ fpc' = "idle")]_vars

\* a misrouted call has reached a relay whose session is active and pin high
C6_Witness ==
  /\ Latest("Misrouted")
  /\ found.pin /\ ~found.none
  /\ pin /\ Session
  /\ \E g \in GIds : gpc[g] = "L101"

\* C7: a call for this relay whose Action is none of On/on/ON/Off/off/OFF sends
\* exactly one report, with Error = true, on its ReportCh, and the step that
\* makes it returns at once and leaves the pin, both channel pointers, both
\* channels, onTime and duration, and every goroutine, as they were.
C7_UnknownAction ==
  /\ [](\A c \in CmdIds :
         calls[c].kind = "Unknown"
         => reports[c] = <<[msg |-> "does not understand Action", error |-> TRUE]>>)
  /\ [][(ncmd' = ncmd + 1 /\ calls'[ncmd'].kind = "Unknown")
         => (UNCHANGED <<rvars, gvars, panicked>> /\ fpc' = "idle")]_vars

\* an unrecognized Action has reached a relay in a timed session, pin high
C7_Witness ==
  /\ Latest("Unknown")
  /\ found.pin /\ ~found.none
  /\ pin /\ Session /\ duration > 0
  /\ \E g \in GIds : gpc[g] = "L101"

\* C8: an Execute(Off) that found the pin low sends no report and makes no
\* goroutine act on a cancel signal of its own.
C8_IdempotentOff ==
  (Latest("Off") /\ ~found.pin)
  => /\ reports[ncmd] = <<>>
     /\ \A g \in GIds : gsig[g] # ncmd

\* C9: no reachable state is a Go panic.
C9_NoPanic == panicked = "none"

IsActivation(m) == m \in {"On indefinitely", "On for"}
IsFinal(m) == m \in {"Forced Off after", "Off after"}
Finishing(g) == gpc[g] \in ResetPcs \cup {"done"}

\* C10: what one goroutine has sent is an activation report first and only
\* first, then "Changing On duration" reports, then at most one final report,
\* which is the last; the final report is there exactly when the goroutine
\* has gone on to its deferred reset.
C10_ReportOrder ==
  \A g \in GIds :
    gpc[g] # "none" =>
      LET ms == Msgs(gt[g].id)
          n == Len(ms)
      IN /\ \A i \in 1 .. n :
              /\ (i = 1) <=> IsActivation(ms[i])
              /\ (i > 1) => (ms[i] = "Changing On duration" \/ IsFinal(ms[i]))
              /\ IsFinal(ms[i]) => i = n
         /\ Finishing(g) <=> (n >= 2 /\ IsFinal(ms[n]))

\* a goroutine has finished after an activation, a revision and a final report
C10_Witness ==
  \E g \in GIds :
    /\ gpc[g] = "done"
    /\ Len(Msgs(gt[g].id)) >= 3
    /\ Msgs(gt[g].id)[2] = "Changing On duration"

\* a goroutine that was spawned has returned and both channels it made are closed
TornDown(g) == gpc[g] = "done" /\ chOff[g].closed /\ chDuration[g].closed

\* C11: Execute(On) spawns the goroutine of a new session only when every
\* goroutine spawned before has returned and has had both its channels closed.
C11_SequentialSessions ==
  [][(Spawned' > Spawned) => (\A g \in GIds : gpc[g] # "none" => TornDown(g))]_vars

\* a goroutine that polls and will go on polling for as long as no call is
\* made: it is at the select, neither channel is ready, and no timeout is set
Polling(g) ==
  /\ gpc[g] = "L101"
  /\ ~Ready(chOff[g])
  /\ ~Ready(chDuration[g])
  /\ duration = 0

\* the latest call has returned and every goroutine has run as far as it can
Settled == Running /\ fpc = "idle" /\ \A g \in Live : Polling(g)

\* C12: once an Execute(Off) for this relay has returned and every goroutine
\* has run as far as it can, no timing goroutine is alive and no session is
\* registered.
C12_OffCancels ==
  (Latest("Off") /\ Settled) => (Live = {} /\ NoSession)

\* C13: whenever an Execute(Off) for this relay has returned, and until the
\* next call, the pin is low; and the pin goes from low to high only in the
\* r.pin.High() of an Execute(On) that found no session, never in a step of
\* a goroutine.
C13_OffLeavesPinLow ==
  /\ []((Latest("Off") /\ fpc = "idle") => ~pin)
  /\ [][(~pin /\ pin') => (fpc = "L72" /\ fpc' = "L73" /\ calls[ncmd].kind = "On"
                            /\ UNCHANGED gvars)]_vars

\* an Off that found the pin high and a session registered has returned
C13_Witness ==
  /\ Latest("Off")
  /\ fpc = "idle"
  /\ found.pin /\ ~found.none
  /\ ~pin

\* a goroutine inside its for/select loop, where it receives on its channels
InLoop(g) == gpc[g] \in {"L101", "L118", "L119", "L115", "L116"}

\* C14: in every reachable state in which r.off and r.durationCh are both nil,
\* onTime is the zero time, duration is 0 and no goroutine is still in its
\* receive loop.
C14_SessionInactive ==
  NoSession => /\ since = ZeroTime
               /\ duration = 0
               /\ \A g \in GIds : ~InLoop(g)

\* the reports sent so far, on any ReportCh, whose message is one of ms
Sent(ms) ==
  UNION {{<<c, i>> : i \in {j \in 1 .. Len(reports[c]) : reports[c][j].msg \in ms}} :
         c \in CmdIds}

\* the reports an Execute(On) can cause: the activation, a revision, and the
\* "Off after" of a timeout or of a revision to no duration
OnReports ==
  Sent({"On indefinitely", "On for", "Changing On duration", "Off after"})

\* the calls made so far that were Execute(On) for this relay
OnCalls == {c \in 1 .. ncmd : calls[c].kind = "On"}

\* C15: once every call has returned and every goroutine has run as far as it
\* can, each Execute(On) for this relay has been answered by a report of its
\* own: there are at least as many activation, revision and "Off after"
\* reports as there were Execute(On) calls.
C15_EveryOnAnswered ==
  Settled => Cardinality(OnReports) >= Cardinality(OnCalls)

\* C16: when Execute(On, D2) with D2 > 0 reached an active session older
\* than D2 and every goroutine has then run as far as it can, the session
\* has ended: the pin is low, an "Off after" report was sent and no
\* goroutine is alive; and neither the call nor the goroutine's taking up of
\* the revision changes onTime.
C16_RevisionBelowElapsed ==
  /\ []((Latest("On") /\ found.late /\ Settled)
         => (~pin /\ Live = {} /\ Sent({"Off after"}) # {}))
  /\ [][(\/ fpc \in {"L136", "L138", "L139", "L139s"} /\ fpc' # fpc
         \/ \E g \in GIds : gpc[g] \in {"L115", "L116"} /\ gpc'[g] # gpc[g])
        => since' = since]_vars

\* C17: whenever Execute is about to send on the revision channel (line 139) or
\* on the cancel channel (line 147), that channel holds no value, so that the
\* send does not wait.
C17_SendsFindRoom ==
  /\ (Running /\ fpc = "L139s") => chDuration[fch].buf = <<>>
  /\ (Running /\ fpc = "L147s") => chOff[fch].buf = <<>>

\* the foreground is at a send on an open channel that already holds a value
Waiting ==
  \/ fpc = "L139s" /\ ~chDuration[fch].closed /\ Len(chDuration[fch].buf) = 1
  \/ fpc = "L147s" /\ ~chOff[fch].closed /\ Len(chOff[fch].buf) = 1

\* a goroutine that has not begun one of its three exits: it is still going
\* to poll its channels
WillReceive(g) ==
  gpc[g] \in {"L76", "L77", "L89", "L96", "L101", "L118", "L119", "L115", "L116"}

\* C18: an Execute call in progress can always go on to its return: the
\* program has not panicked under it, a send on the revision channel waits
\* only for a goroutine that is still going to receive, and the send of
\* Execute(Off) on the cancel channel does not wait at all.
C18_ExecuteReturns ==
  /\ fpc # "idle" => Running
  /\ (Waiting /\ fpc = "L139s") => WillReceive(fch)
  /\ ~(Waiting /\ fpc = "L147s")

\* what a receive on goroutine g's durationCh yields
Revision(g) == IF Len(chDuration[g].buf) > 0 THEN Head(chDuration[g].buf) ELSE 0

\* goroutine g sends exactly the one report m
SendsOne(g, m) ==
  reports' = [reports EXCEPT ![gt[g].id] = Append(@, [msg |-> m, error |-> FALSE])]

\* C19: a goroutine that receives a revision <= 0 writes the pin low, sends
\* one "Off after" report and goes on to its deferred reset; one that receives
\* a revision > 0 sets duration to it and sends one "Changing On duration"
\* report, and in doing so leaves the pin, onTime, both pointers and both
\* channels as they are and returns to its select.
C19_RevisionHandling ==
  [][\A g \in GIds :
       /\ (gpc[g] = "L101" /\ gpc'[g] \in {"L109", "L115"})
            => /\ gpc'[g] = (IF Revision(g) <= 0 THEN "L109" ELSE "L115")
               /\ gpc'[g] = "L115" => gnew'[g] = Revision(g)
               /\ UNCHANGED <<pin, since, duration, reports>>
       /\ (gpc[g] = "L109" /\ gpc'[g] # gpc[g])
            => (~pin' /\ gpc'[g] = "L111" /\ UNCHANGED reports)
       /\ (gpc[g] = "L111" /\ gpc'[g] # gpc[g])
            => (SendsOne(g, "Off after") /\ gpc'[g] = "r236")
       /\ (gpc[g] = "L115" /\ gpc'[g] # gpc[g])
            => /\ duration' = gnew[g] /\ duration' > 0
               /\ gpc'[g] = "L116"
               /\ UNCHANGED <<pin, since, durationCh, off, chDuration, chOff, reports>>
       /\ (gpc[g] = "L116" /\ gpc'[g] # gpc[g])
            => (SendsOne(g, "Changing On duration") /\ gpc'[g] = "L101"
                /\ UNCHANGED rvars)
  ]_vars

\* an indefinite session has been revised to a duration > 0: its goroutine is
\* back at its select, the pin is high and the session is timed
C19_Witness ==
  \E g \in GIds :
    /\ gpc[g] = "L101"
    /\ gt[g].Duration = 0
    /\ Msgs(gt[g].id) = <<"On indefinitely", "Changing On duration">>
    /\ duration > 0
    /\ pin
    /\ Session

\* C20: each of a goroutine's three exits writes the pin low before it sends
\* the final report; and when the goroutine finishes, at the end of its
\* deferred reset, r.off and r.durationCh are nil, both channels it made are
\* closed, duration is 0 and onTime is the zero time.
C20_ExitPostcondition ==
  [][\A g \in GIds :
       /\ (gpc[g] \in LowPcs /\ gpc'[g] # gpc[g])
            => (~pin' /\ gpc'[g] \in FinalPcs /\ UNCHANGED reports)
       /\ (gpc'[g] \in FinalPcs /\ gpc[g] # gpc'[g]) => gpc[g] \in LowPcs
       /\ (gpc[g] # "done" /\ gpc'[g] = "done")
            => /\ off' = Nil
               /\ durationCh' = Nil
               /\ chOff'[g].closed
               /\ chDuration'[g].closed
               /\ duration' = 0
               /\ since' = ZeroTime
  ]_vars

\* a step of Set, On or Off: its call, which writes the pin, its stamp of
\* onTime, or its read-back
DirectStep ==
  \/ ncmd' = ncmd + 1 /\ calls'[ncmd'].kind \in DirectKinds
  \/ fpc \in StampPcs \cup ReadBackPcs /\ fpc' # fpc

\* a step of Get, State, StateString or Name
ReadStep ==
  \/ ncmd' = ncmd + 1 /\ calls'[ncmd'].kind \in ReadKinds
  \/ fpc \in {"L206", "L223"} /\ fpc' # fpc

\* C21: a step of Set, On or Off changes nothing but the pin and onTime: it
\* leaves duration, r.durationCh, r.off, both channels, every goroutine and
\* the reports as they are; what the call returns is the level read from the
\* pin at its last statement; and a step of Get, State, StateString or Name
\* changes nothing of the relay at all.
C21_DirectBypass ==
  [][/\ DirectStep => UNCHANGED <<duration, durationCh, off, chDuration, chOff,
                                  gvars, reports, panicked>>
     /\ (fpc \in ReadBackPcs /\ fpc' = "idle")
          => (dret'.value = pin /\ UNCHANGED <<pin, since>>)
     /\ ReadStep => UNCHANGED <<rvars, gvars, reports, panicked>>
  ]_vars

\* Off() has returned low in the middle of a timed session, which goes on
C21_Witness ==
  /\ dret = [op |-> "DirectOff", value |-> FALSE]
  /\ fpc = "idle"
  /\ Session
  /\ duration > 0
  /\ \E g \in GIds : gpc[g] = "L101"

\* C22: in every state reached through Execute alone in which a session is
\* registered, r.off and r.durationCh pointing to the channels of a goroutine
\* that has not begun one of its three exits, the pin is high.
C22_SessionImpliesPinHigh ==
  \A g \in GIds :
    (off = g /\ durationCh = g /\ WillReceive(g)) => pin

\* a session started after goroutine g was spawned is under way: its
\* goroutine is alive, or Execute(On) has set the pin high for it and is
\* about to spawn it
LaterSession(g) ==
  \/ \E h \in GIds : h > g /\ h \in Live
  \/ fpc = "L73" /\ Spawned >= g

\* C23: the deferred reset of a goroutine closes only the channels that
\* goroutine made and clears r.off and r.durationCh only when they point to
\* them, and a goroutine writes the pin low on its exit only when no session
\* started after its own is under way.
C23_TeardownOwnSession ==
  [][\A g \in GIds :
       /\ (gpc[g] \in {"r237", "r238"} /\ gpc'[g] # gpc[g] /\ off # Nil) => off = g
       /\ (gpc[g] \in {"r243", "r244"} /\ gpc'[g] # gpc[g] /\ durationCh # Nil)
            => durationCh = g
       /\ (gpc[g] \in LowPcs /\ gpc'[g] # gpc[g]) => ~LaterSession(g)
  ]_vars

\* C24: no duration sent on a revision channel and no signal sent on a cancel
\* channel is left behind: a channel holds a value only while the goroutine
\* that made it is still going to poll it, never once that goroutine has begun
\* an exit or the channel has been closed.
C24_NothingLost ==
  \A g \in GIds :
    (chDuration[g].buf # <<>> \/ chOff[g].buf # <<>>) => WillReceive(g)

====
